---- MODULE Spec2Model ----
(***************************************************************************)
(* Squash Publisher (src/main.rs): one run of the tool against a git       *)
(* repository with the two remotes "origin" and "github".                  *)
(*                                                                         *)
(* Text (String, &str) is a sequence of one-character strings.  Commits    *)
(* are numbered; a commit's printed object name is two characters.         *)
(***************************************************************************)
EXTENDS Integers, Sequences, FiniteSets, TLC

\* ------------------------------------------------------------------ bounds
\* Number of distinct tree contents (working-tree snapshots).
NumTrees == 2
\* Largest number of text fragments git writes to stderr in one failure.
MaxFrag == 1
\* Largest number of text pieces in an input of the ahead/behind parser.
MaxParseFrag == 3

\* ------------------------------------------------------------------- text
Whitespace == {" ", "\t", "\n"}

RECURSIVE TrimStart(_)
TrimStart(s) ==
  IF s # <<>> /\ Head(s) \in Whitespace THEN TrimStart(Tail(s)) ELSE s

RECURSIVE TrimEnd(_)
TrimEnd(s) ==
  IF s # <<>> /\ s[Len(s)] \in Whitespace
    THEN TrimEnd(SubSeq(s, 1, Len(s) - 1))
    ELSE s

\* str::trim
Trim(s) == TrimEnd(TrimStart(s))

\* str::contains with a &str pattern
Contains(s, p) ==
  \E i \in 1..(Len(s) - Len(p) + 1) : SubSeq(s, i, i + Len(p) - 1) = p

\* str::is_empty
IsEmpty(s) == s = <<>>

RECURSIVE Concat(_)
Concat(ss) == IF ss = <<>> THEN <<>> ELSE Head(ss) \o Concat(Tail(ss))

\* All sequences over S of length 0..n
SeqUpTo(S, n) == UNION {[1..k -> S] : k \in 0..n}

\* ------------------------------------------------------- numbers as text
DigitChars == <<"0", "1", "2", "3", "4", "5", "6", "7", "8", "9">>

DigitChar(n) == DigitChars[n + 1]

IsDigit(ch) == \E i \in 1..Len(DigitChars) : DigitChars[i] = ch

DigitVal(ch) == (CHOOSE i \in 1..Len(DigitChars) : DigitChars[i] = ch) - 1

\* Decimal text of a natural number, as git prints a count.
RECURSIVE Dec(_)
Dec(n) ==
  IF n < 10 THEN <<DigitChar(n)>> ELSE Dec(n \div 10) \o <<DigitChar(n % 10)>>

\* str::split_whitespace, collected into a Vec
RECURSIVE SplitWhitespace(_)
SplitWhitespace(s) ==
  LET t == TrimStart(s)
      n == IF \E i \in 1..Len(t) : t[i] \in Whitespace
             THEN (CHOOSE i \in 1..Len(t) :
                     /\ t[i] \in Whitespace
                     /\ \A j \in 1..(i - 1) : t[j] \notin Whitespace) - 1
             ELSE Len(t)
  IN  IF t = <<>> THEN <<>>
      ELSE <<SubSeq(t, 1, n)>> \o SplitWhitespace(SubSeq(t, n + 1, Len(t)))

RECURSIVE DecValue(_)
DecValue(ds) ==
  IF ds = <<>> THEN 0
  ELSE DecValue(SubSeq(ds, 1, Len(ds) - 1)) * 10 + DigitVal(ds[Len(ds)])

\* u64::MAX in decimal
U64MaxText ==
  <<"1", "8", "4", "4", "6", "7", "4", "4", "0", "7", "3", "7", "0", "9", "5", "5", "1", "6", "1", "5">>

\* Leading zeros removed (one digit is always left).
RECURSIVE StripZeros(_)
StripZeros(ds) ==
  IF Len(ds) > 1 /\ Head(ds) = "0" THEN StripZeros(Tail(ds)) ELSE ds

\* a <= b for digit texts of the same length
RECURSIVE DigitsLeq(_, _)
DigitsLeq(a, b) ==
  IF a = <<>> THEN TRUE
  ELSE IF DigitVal(Head(a)) # DigitVal(Head(b))
    THEN DigitVal(Head(a)) < DigitVal(Head(b))
  ELSE DigitsLeq(Tail(a), Tail(b))

\* The checked multiply-and-add of str::parse::<u64> does not overflow.
FitsU64(ds) ==
  LET n == StripZeros(ds)
  IN  \/ Len(n) < Len(U64MaxText)
      \/ Len(n) = Len(U64MaxText) /\ DigitsLeq(n, U64MaxText)

\* str::parse::<u64>: an optional '+', then one or more decimal digits whose
\* value fits in 64 bits.  The result is a set: {value} for Ok(value), {} for
\* Err.
ParseU64(field) ==
  LET ds == IF field # <<>> /\ Head(field) = "+" THEN Tail(field) ELSE field
  IN  IF ds = <<>> \/ \E i \in 1..Len(ds) : ~IsDigit(ds[i])
        THEN {}
      ELSE IF ~FitsU64(ds)
        THEN {}
      ELSE {DecValue(ds)}

\* Result::unwrap_or / Option::unwrap_or
UnwrapOr(r, d) == IF r = {} THEN d ELSE CHOOSE v \in r : TRUE

\* parse_ahead_behind returning (behind, ahead).
parse_ahead_behind_Swapped(s) ==
  LET parts == SplitWhitespace(s)
  IN  IF Len(parts) >= 2
        THEN <<UnwrapOr(ParseU64(parts[2]), 0), UnwrapOr(ParseU64(parts[1]), 0)>>
        ELSE <<0, 0>>

\* fn parse_ahead_behind
parse_ahead_behind(s) ==
  LET parts == SplitWhitespace(s)
  IN  IF Len(parts) >= 2
        THEN <<UnwrapOr(ParseU64(parts[1]), 0), UnwrapOr(ParseU64(parts[2]), 0)>>
        ELSE <<0, 0>>

\* -------------------------------------------------------------------- git
\* The repository the tool runs in, as git's documentation describes it.
Trees == 1..NumTrees

\* History before the run: 1 <- 2 <- 3 on origin, 4 a local commit on top of
\* 1, and 5 a root commit of an unrelated history.
InitCommits ==
  <<[parents |-> {},  tree |-> 1, msg |-> "init"],
    [parents |-> {1}, tree |-> 2, msg |-> "work"],
    [parents |-> {2}, tree |-> 1, msg |-> "more"],
    [parents |-> {1}, tree |-> 1, msg |-> "local"],
    [parents |-> {},  tree |-> 2, msg |-> "mirror"]>>

\* Commits reachable from the commits of S (S included).
RECURSIVE Reach(_, _)
Reach(cs, S) ==
  IF S = {} THEN {} ELSE S \cup Reach(cs, UNION {cs[c].parents : c \in S})

\* git merge-base: the best common ancestors of a and b.
MergeBases(cs, a, b) ==
  LET common == Reach(cs, {a}) \cap Reach(cs, {b})
  IN  {c \in common : \A d \in common \ {c} : c \notin Reach(cs, {d})}

\* Object names as git prints them (abbreviated to two characters).
CommitName(c) == <<"c", DigitChar(c)>>

TreeName(t) == <<"t", DigitChar(t)>>

\* git's resolution of a revision argument to commits of the repository.
ResolveCommit(cs, name) == {c \in DOMAIN cs : CommitName(c) = name}

ResolveTree(name) == {t \in Trees : TreeName(t) = name}

\* The tree HEAD (= main) records, once main is checked out.
TreeOf(cs, ref) == cs[CHOOSE c \in ref : TRUE].tree

\* git rev-list --left-right --count a...b
RevListCount(cs, a, b) ==
  Dec(Cardinality(Reach(cs, a) \ Reach(cs, b))) \o <<"\t">>
    \o Dec(Cardinality(Reach(cs, b) \ Reach(cs, a))) \o <<"\n">>

\* -------------------------------------------------------- process results
\* std::process::ExitStatus of a child, or the failure to spawn it.
\* code is Option<i32>: {} when the child was killed by a signal.
NoSpawn == [spawned |-> FALSE, code |-> {}]

Signalled == [spawned |-> TRUE, code |-> {}]

Exited(c) == [spawned |-> TRUE, code |-> {c}]

ExitCodes == {0, 1, 2, 17, 128}

Statuses == {NoSpawn, Signalled} \cup {Exited(c) : c \in ExitCodes}

\* The statuses run and run_output tell apart: not spawned, success, and
\* failure by a non-zero exit code or by a signal.
RunStatuses == {NoSpawn, Exited(0), Exited(1), Signalled}

\* ExitStatus::success
Success(st) == st.spawned /\ st.code = {0}

\* std::process::Output
Output(st, stdout, stderr) == [status |-> st, stdout |-> stdout, stderr |-> stderr]

NoOutput == Output(NoSpawn, <<>>, <<>>)

\* anyhow::Result: Ok(val) or Err(err)
NoError == [what |-> "", argv |-> <<>>, val |-> <<>>, detail |-> <<>>]

Ok(v) == [ok |-> TRUE, val |-> v, err |-> NoError]

Err(e) == [ok |-> FALSE, val |-> <<>>, err |-> e]

\* The std::io::Error of Command::status / Command::output / a prompt.
IoError == [what |-> "io error", argv |-> <<>>, val |-> <<>>, detail |-> <<>>]

\* bail!("Command failed: {} {:?}", cmd, args); val is the text of the
\* argument that is a variable of the program.
CommandFailed(a, v) ==
  [what |-> "Command failed", argv |-> a, val |-> v, detail |-> <<>>]

\* run without the check of status.success() of lines 13-15.
run_IgnoreStatus(a, v, st) ==
  IF ~st.spawned THEN Err(IoError)
  ELSE Ok(<<>>)

\* fn run
run(a, v, st) ==
  IF ~st.spawned THEN Err(IoError)
  ELSE IF ~Success(st) THEN Err(CommandFailed(a, v))
  ELSE Ok(<<>>)

\* fn run_output
run_output(a, v, st, stdout) ==
  IF ~st.spawned THEN Err(IoError)
  ELSE IF ~Success(st) THEN Err(CommandFailed(a, v))
  ELSE Ok(Trim(stdout))

\* ------------------------------------------------------------------ state
VARIABLES
  pc,            \* position in main / sync_gitlab_main
  argv,          \* command-line arguments after the program name
  message,       \* the commit message
  out,           \* lines printed to standard output
  cmds,          \* git commands issued so far, with their statuses
  confirms,      \* confirmation prompts shown so far, with their answers
  result,        \* "running", or what main returned: "Ok" / "Err"
  err,           \* the error main returned
  github_exists, \* local of main
  tree,          \* local of main
  commit,        \* local of main
  base,          \* local of main
  counts,        \* (ahead, behind) of sync_gitlab_main
  entryMain,     \* local main when sync_gitlab_main was entered
  output,        \* what the last git merge-base child returned and wrote
  commits,       \* the commit objects of the repository
  localMain,     \* refs/heads/main (checked out once the switch succeeded)
  index,         \* the staged tree
  worktree,      \* the working-tree content
  originMain,    \* refs/remotes/origin/main
  originRemote,  \* main on the origin remote
  githubMain,    \* refs/remotes/github/main ({} when absent)
  githubRemote,  \* main on the github remote ({} when absent)
  githubBefore   \* main on the github remote when the run started

progVars == <<pc, argv, message, out, cmds, confirms, result, err>>

localVars == <<github_exists, tree, commit, base, counts, entryMain>>

gitVars ==
  <<commits, localMain, index, worktree, originMain, originRemote,
    githubMain, githubRemote>>

vars == <<progVars, localVars, output, gitVars, githubBefore>>

Messages == {"release 1", "release 2"}

ArgvChoices ==
  {<<>>, <<"-m", "">>} \cup {<<"-m", m>> : m \in Messages}

PromptAnswers == {"yes", "no", "error"}

Init ==
  /\ pc = "args"
  /\ argv \in ArgvChoices
  /\ message = ""
  /\ out = <<>>
  /\ cmds = <<>>
  /\ confirms = <<>>
  /\ result = "running"
  /\ err = NoError
  /\ github_exists = FALSE
  /\ tree = <<>>
  /\ commit = <<>>
  /\ base = <<>>
  /\ counts = <<0, 0>>
  /\ output = NoOutput
  /\ commits = InitCommits
  /\ localMain \in {2, 3, 4}
  /\ entryMain = localMain
  /\ index = commits[localMain].tree
  /\ worktree \in Trees
  /\ originMain = 2
  /\ originRemote \in {2, 3}
  /\ githubMain = {}
  /\ githubRemote \in {{}, {1}, {2}, {5}}
  /\ githubBefore = githubRemote

\* ---------------------------------------------------------------- helpers
\* main returns Err(e): the process exits with a non-zero code.
Fail(e) == pc' = "exit" /\ result' = "Err" /\ err' = e

\* main returns Ok(()): the process exits with code 0.
Finish == pc' = "exit" /\ result' = "Ok" /\ err' = err

Goto(l) == pc' = l /\ UNCHANGED <<result, err>>

\* The `?` operator on a Result.
Try(r, l) == IF r.ok THEN Goto(l) ELSE Fail(r.err)

Println(lines) == out' = out \o lines

\* Confirm::new().with_prompt(text).default(false).interact()
Confirm(text, answer) == confirms' = Append(confirms, [text |-> text, answer |-> answer])

\* A child process was started (or failed to start) with these arguments.
Issue(a, v, st) == cmds' = Append(cmds, [argv |-> a, val |-> v, st |-> st])

\* Exit code of the process (Termination for Result<()>).
ExitCode == IF result = "Ok" THEN 0 ELSE 1

\* ------------------------------------------------------------------- main
\* main, lines 114-119: `-m <message>` and the test of line 120
ReadArgs ==
  /\ pc = "args"
  /\ LET given == Len(argv) >= 2 /\ argv[1] = "-m"
         m == IF given THEN argv[2] ELSE ""
     IN  /\ message' = m
         /\ argv' = IF given THEN SubSeq(argv, 3, Len(argv)) ELSE argv
         /\ Goto(IF m = "" THEN "input" ELSE "confirm")
  /\ UNCHANGED <<githubBefore, confirms, out, cmds, output, localVars,
                 gitVars>>

\* main, lines 120-124: Input::interact_text (re-asks on an empty answer)
InputMessage ==
  /\ pc = "input"
  /\ \/ \E m \in Messages : message' = m /\ Goto("confirm")
     \/ message' = message /\ Fail(IoError)
  /\ UNCHANGED <<githubBefore, confirms, argv, out, cmds, output, localVars,
                 gitVars>>

\* ConfirmContinue without the `return Ok(())` of line 132.
ConfirmContinue_NoReturn ==
  /\ pc = "confirm"
  /\ \E answer \in PromptAnswers :
       /\ Confirm("Continue?", answer)
       /\ CASE answer = "yes" ->
                 /\ Println(<<"Commit: \"{}\"">>)
                 /\ Goto("switch")
            [] answer = "no" ->
                 /\ Println(<<"Commit: \"{}\"", "Aborted.">>)
                 /\ Goto("switch")
            [] OTHER ->
                 /\ Println(<<"Commit: \"{}\"">>)
                 /\ Fail(IoError)
  /\ UNCHANGED <<githubBefore, argv, message, output, cmds, localVars,
                 gitVars>>

\* main, lines 125-133: the "Continue?" confirmation
ConfirmContinue ==
  /\ pc = "confirm"
  /\ \E answer \in PromptAnswers :
       /\ Confirm("Continue?", answer)
       /\ CASE answer = "yes" ->
                 /\ Println(<<"Commit: \"{}\"">>)
                 /\ Goto("switch")
            [] answer = "no" ->
                 /\ Println(<<"Commit: \"{}\"", "Aborted.">>)
                 /\ Finish
            [] OTHER ->
                 /\ Println(<<"Commit: \"{}\"">>)
                 /\ Fail(IoError)
  /\ UNCHANGED <<githubBefore, argv, message, output, cmds, localVars,
                 gitVars>>

\* SwitchMain without the `?` of line 135.
SwitchMain_IgnoreResult ==
  /\ pc = "switch"
  /\ \E st \in RunStatuses :
       LET a == <<"git", "switch", "main">>
       IN  /\ Issue(a, <<>>, st)
           /\ Goto("pull")
  /\ Println(<<"Syncing GitLab main...">>)
  /\ UNCHANGED <<githubBefore, confirms, argv, message, output, localVars,
                 gitVars>>

\* main, lines 134-135: git switch main
SwitchMain ==
  /\ pc = "switch"
  /\ \E st \in RunStatuses :
       LET a == <<"git", "switch", "main">>
       IN  /\ Issue(a, <<>>, st)
           /\ Try(run(a, <<>>, st), "pull")
  /\ Println(<<"Syncing GitLab main...">>)
  /\ UNCHANGED <<githubBefore, confirms, argv, message, output, localVars,
                 gitVars>>

\* ------------------------------------------------------- sync_gitlab_main
\* git pull origin main --ff-only can succeed only when one of the two
\* branch tips is an ancestor of the other.
CanFastForward ==
  \/ originRemote \in Reach(commits, {localMain})
  \/ localMain \in Reach(commits, {originRemote})

\* Pull without the `return Ok(())` of line 73.
Pull_NoReturn ==
  /\ pc = "pull"
  /\ entryMain' = localMain
  /\ \E st \in RunStatuses :
       LET a == <<"git", "pull", "origin", "main", "--ff-only">>
           newMain == IF localMain \in Reach(commits, {originRemote})
                        THEN originRemote ELSE localMain
       IN  /\ Issue(a, <<>>, st)
           /\ IF ~st.spawned THEN
                /\ Fail(IoError)
                /\ UNCHANGED <<localMain, index, worktree, originMain>>
              ELSE IF Success(st) THEN
                /\ CanFastForward
                /\ originMain' = originRemote
                /\ localMain' = newMain
                /\ index' = commits[newMain].tree
                /\ worktree' = IF worktree = commits[localMain].tree
                                 THEN commits[newMain].tree ELSE worktree
                /\ Goto("revlist")
              ELSE
                /\ originMain' \in {originMain, originRemote}
                /\ UNCHANGED <<localMain, index, worktree>>
                /\ Goto("revlist")
  /\ UNCHANGED <<githubBefore, confirms, argv, message, output, out,
                 github_exists, tree, commit, base, counts, commits,
                 originRemote, githubMain, githubRemote>>

\* sync_gitlab_main, lines 66-74: the fast-forward-only pull
Pull ==
  /\ pc = "pull"
  /\ entryMain' = localMain
  /\ \E st \in RunStatuses :
       LET a == <<"git", "pull", "origin", "main", "--ff-only">>
           newMain == IF localMain \in Reach(commits, {originRemote})
                        THEN originRemote ELSE localMain
       IN  /\ Issue(a, <<>>, st)
           /\ IF ~st.spawned THEN
                /\ Fail(IoError)
                /\ UNCHANGED <<localMain, index, worktree, originMain>>
              ELSE IF Success(st) THEN
                /\ CanFastForward
                /\ originMain' = originRemote
                /\ localMain' = newMain
                /\ index' = commits[newMain].tree
                /\ worktree' = IF worktree = commits[localMain].tree
                                 THEN commits[newMain].tree ELSE worktree
                /\ Goto("exists")
              ELSE
                \* the fetch may have happened before the merge was refused
                /\ originMain' \in {originMain, originRemote}
                /\ UNCHANGED <<localMain, index, worktree>>
                /\ Goto("revlist")
  /\ UNCHANGED <<githubBefore, confirms, argv, message, output, out,
                 github_exists, tree, commit, base, counts, commits,
                 originRemote, githubMain, githubRemote>>

\* sync_gitlab_main, lines 75-83: the ahead/behind counts
RevList ==
  /\ pc = "revlist"
  /\ \E st \in RunStatuses :
       LET a == <<"git", "rev-list", "--left-right", "--count", "main...origin/main">>
           stdout == RevListCount(commits, {localMain}, {originMain})
           r == run_output(a, <<>>, st, stdout)
       IN  /\ Issue(a, <<>>, st)
           /\ Try(r, "confirm_reset")
           /\ IF r.ok
                THEN /\ counts' = parse_ahead_behind(r.val)
                     /\ Println(<<"Local main diverged from origin/main (local +{}, remote +{}).">>)
                ELSE UNCHANGED <<counts, out>>
  /\ UNCHANGED <<githubBefore, confirms, argv, message, output, github_exists,
                 tree, commit, base, entryMain, gitVars>>

\* ConfirmReset without the `return Ok(())` of line 90.
ConfirmReset_NoReturn ==
  /\ pc = "confirm_reset"
  /\ \E answer \in PromptAnswers :
       /\ Confirm("Reset local main to origin/main? Local commits will be lost.", answer)
       /\ CASE answer = "yes" -> Goto("reset_origin") /\ UNCHANGED out
            [] answer = "no" -> Println(<<"Aborted.">>) /\ Goto("reset_origin")
            [] OTHER -> Fail(IoError) /\ UNCHANGED out
  /\ UNCHANGED <<githubBefore, argv, message, output, cmds, localVars,
                 gitVars>>

\* sync_gitlab_main, lines 84-91: "Reset local main to origin/main?"
ConfirmReset ==
  /\ pc = "confirm_reset"
  /\ \E answer \in PromptAnswers :
       /\ Confirm("Reset local main to origin/main? Local commits will be lost.", answer)
       /\ CASE answer = "yes" -> Goto("reset_origin") /\ UNCHANGED out
            [] answer = "no" -> Println(<<"Aborted.">>) /\ Goto("exists")
            [] OTHER -> Fail(IoError) /\ UNCHANGED out
  /\ UNCHANGED <<githubBefore, argv, message, output, cmds, localVars,
                 gitVars>>

\* sync_gitlab_main, lines 92-93: git reset --hard origin/main
ResetOrigin ==
  /\ pc = "reset_origin"
  /\ \E st \in RunStatuses :
       LET a == <<"git", "reset", "--hard", "origin/main">>
       IN  /\ Issue(a, <<>>, st)
           /\ Try(run(a, <<>>, st), "exists")
           /\ IF Success(st)
                THEN /\ localMain' = originMain
                     /\ index' = commits[originMain].tree
                     /\ worktree' = commits[originMain].tree
                ELSE UNCHANGED <<localMain, index, worktree>>
  /\ UNCHANGED <<githubBefore, confirms, argv, message, output, out, localVars,
                 commits, originMain, originRemote, githubMain, githubRemote>>

\* --------------------------------------------------- github_branch_exists
LsRemoteArgv == <<"git", "ls-remote", "--exit-code", "github", "refs/heads/main">>

\* bail!("Command failed: git ls-remote ... (exit {})", code)
LsRemoteFailed(code) ==
  [what |-> "Command failed", argv |-> LsRemoteArgv, val |-> <<>>,
   detail |-> IF code = {} THEN <<>> ELSE <<"(exit {})">> \o Dec(CHOOSE c \in code : TRUE)]

\* github_branch_exists taking every non-zero exit code for "absent".
github_branch_exists_NonZeroAbsent(st) ==
  IF ~st.spawned THEN Err(IoError)
  ELSE IF st.code = {0} THEN Ok(TRUE)
  ELSE IF st.code # {} THEN Ok(FALSE)
  ELSE Err(LsRemoteFailed(st.code))

\* fn github_branch_exists: the match on status.code()
github_branch_exists(st) ==
  IF ~st.spawned THEN Err(IoError)
  ELSE IF st.code = {0} THEN Ok(TRUE)
  ELSE IF st.code = {2} THEN Ok(FALSE)
  ELSE Err(LsRemoteFailed(st.code))

\* main, lines 137-139 and 148: the existence check and the branch on it
CheckGithubBranch ==
  /\ pc = "exists"
  /\ \E st \in Statuses :
       LET r == github_branch_exists(st)
       IN  \* git ls-remote --exit-code: 0 when the ref is listed, 2 when not
           /\ st = Exited(0) => githubRemote # {}
           /\ st = Exited(2) => githubRemote = {}
           /\ Issue(LsRemoteArgv, <<>>, st)
           /\ IF r.ok
                THEN /\ github_exists' = r.val
                     /\ IF r.val
                          THEN /\ Println(<<"Fetching github/main...">>)
                               /\ Goto("fetch")
                          ELSE /\ Println(<<"GitHub empty -> publish initial squashed release">>)
                               /\ Goto("boot_add")
                ELSE /\ Fail(r.err)
                     /\ UNCHANGED <<github_exists, out>>
  /\ UNCHANGED <<githubBefore, confirms, argv, message, output, tree, commit,
                 base, counts, entryMain, gitVars>>

\* ------------------------------------------------------------- merge_base
\* The substrings of stderr that merge_base takes for "no common history".
PatNoMergeBase ==
  <<"N", "o", " ", "m", "e", "r", "g", "e", " ", "b", "a", "s", "e">>

PatNoCommonAncestor ==
  <<"n", "o", " ", "c", "o", "m", "m", "o", "n", " ", "a", "n", "c", "e", "s", "t", "o", "r">>

PatNotValidObject ==
  <<"N", "o", "t", " ", "a", " ", "v", "a", "l", "i", "d", " ", "o", "b", "j", "e", "c", "t", " ", "n", "a", "m", "e">>

PatUnknownRevision ==
  <<"u", "n", "k", "n", "o", "w", "n", " ", "r", "e", "v", "i", "s", "i", "o", "n">>

PatNeededSingle ==
  <<"N", "e", "e", "d", "e", "d", " ", "a", " ", "s", "i", "n", "g", "l", "e", " ", "r", "e", "v", "i", "s", "i", "o", "n">>

Patterns ==
  {PatNoMergeBase, PatNoCommonAncestor, PatNotValidObject, PatUnknownRevision,
   PatNeededSingle}

\* Other pieces of text git may write when merge-base fails.
TxtInvalidRef ==
  <<"f", "a", "t", "a", "l", ":", " ", "N", "o", "t", " ", "a", " ", "v", "a", "l", "i", "d", " ", "o", "b", "j", "e", "c", "t", " ", "n", "a", "m", "e", " ", "g", "i", "t", "h", "u", "b", "/", "m", "a", "i", "n", "\n">>

TxtLowerNoMergeBase ==
  <<"n", "o", " ", "m", "e", "r", "g", "e", " ", "b", "a", "s", "e">>

TxtUpperUnknown ==
  <<"U", "n", "k", "n", "o", "w", "n", " ", "r", "e", "v", "i", "s", "i", "o", "n">>

TxtBadConfig ==
  <<"f", "a", "t", "a", "l", ":", " ", "b", "a", "d", " ", "c", "o", "n", "f", "i", "g", "\n">>

TxtBlank ==
  <<" ", "\n">>

Fragments ==
  Patterns \cup {TxtInvalidRef, TxtLowerNoMergeBase, TxtUpperUnknown, TxtBadConfig, TxtBlank}

\* What a failing git merge-base may leave on stderr and stdout.
StderrTexts == {Concat(fs) : fs \in SeqUpTo(Fragments, MaxFrag)}

StdoutTexts == {<<>>, <<"\n">>, CommitName(1) \o <<"\n">>}

\* bail!("Command failed: git merge-base {} {} ({})", left, right, stderr.trim())
MergeBaseFailed(left, right, stderr) ==
  [what |-> "Command failed", argv |-> <<"git", "merge-base", left, right>>,
   val |-> <<>>, detail |-> Trim(stderr)]

\* merge_base with `||` for the `&&` of line 53.
merge_base_BlankEither(left, right, o) ==
  IF ~o.status.spawned THEN Err(IoError)
  ELSE IF Success(o.status) THEN Ok({Trim(o.stdout)})
  ELSE IF \/ Contains(o.stderr, PatNoMergeBase)
          \/ Contains(o.stderr, PatNoCommonAncestor)
          \/ Contains(o.stderr, PatNotValidObject)
          \/ Contains(o.stderr, PatUnknownRevision)
          \/ Contains(o.stderr, PatNeededSingle)
          \/ (IsEmpty(Trim(o.stderr)) \/ IsEmpty(Trim(o.stdout)))
    THEN Ok({})
  ELSE Err(MergeBaseFailed(left, right, o.stderr))

\* fn merge_base, lines 41-62: Ok({name}) is Ok(Some(name)), Ok({}) is Ok(None)
merge_base(left, right, o) ==
  IF ~o.status.spawned THEN Err(IoError)
  ELSE IF Success(o.status) THEN Ok({Trim(o.stdout)})
  ELSE IF \/ Contains(o.stderr, PatNoMergeBase)
          \/ Contains(o.stderr, PatNoCommonAncestor)
          \/ Contains(o.stderr, PatNotValidObject)
          \/ Contains(o.stderr, PatUnknownRevision)
          \/ Contains(o.stderr, PatNeededSingle)
          \/ (IsEmpty(Trim(o.stderr)) /\ IsEmpty(Trim(o.stdout)))
    THEN Ok({})
  ELSE Err(MergeBaseFailed(left, right, o.stderr))

\* What git merge-base main github/main returns in this repository, and the
\* failures the environment may cause whatever the history is.
MergeBaseOutputs ==
  (IF githubMain = {}
     THEN {Output(Exited(128), <<>>, TxtInvalidRef)}
     ELSE LET bs == MergeBases(commits, localMain, CHOOSE c \in githubMain : TRUE)
          IN  IF bs = {}
                THEN {Output(Exited(1), <<>>, <<>>)}
                ELSE {Output(Exited(0), CommitName(b) \o <<"\n">>, <<>>) : b \in bs})
    \cup {NoOutput}
    \cup {Output(st, so, se) :
            st \in {Exited(128)}, so \in StdoutTexts, se \in StderrTexts}

\* ------------------------------------------------------- main, lines 137-
\* git add .
AddDot(next) ==
  /\ \E st \in RunStatuses :
       LET a == <<"git", "add", ".">>
       IN  /\ Issue(a, <<>>, st)
           /\ Try(run(a, <<>>, st), next)
           /\ index' = IF Success(st) THEN worktree ELSE index
  /\ output' = NoOutput
  /\ UNCHANGED <<githubBefore, confirms, argv, message, out, localVars,
                 commits, localMain, worktree, originMain, originRemote,
                 githubMain, githubRemote>>

\* let tree = run_output("git", &["write-tree"])?
WriteTree(next) ==
  /\ \E st \in RunStatuses :
       LET a == <<"git", "write-tree">>
           r == run_output(a, <<>>, st, TreeName(index) \o <<"\n">>)
       IN  /\ Issue(a, <<>>, st)
           /\ Try(r, next)
           /\ tree' = IF r.ok THEN r.val ELSE tree
  /\ UNCHANGED <<githubBefore, confirms, argv, message, out, output,
                 github_exists, commit, base, counts, entryMain, gitVars>>

\* CommitTree as if the code passed `-p HEAD` to git commit-tree.
CommitTree_WithParent(next) ==
  /\ \E st \in RunStatuses :
       LET a == <<"git", "commit-tree", "&tree", "-m", "&message">>
           new == Len(commits) + 1
           r == run_output(a, tree, st, CommitName(new) \o <<"\n">>)
       IN  /\ Success(st) => ResolveTree(tree) # {}
           /\ Issue(a, tree, st)
           /\ Try(r, next)
           /\ commit' = IF r.ok THEN r.val ELSE commit
           /\ commits' =
                IF Success(st)
                  THEN Append(commits,
                              [parents |-> {localMain},
                               tree |-> CHOOSE t \in ResolveTree(tree) : TRUE,
                               msg |-> message])
                  ELSE commits
  /\ UNCHANGED <<githubBefore, confirms, argv, message, out, output,
                 github_exists, tree, base, counts, entryMain, localMain,
                 index, worktree, originMain, originRemote, githubMain,
                 githubRemote>>

\* let commit = run_output("git", &["commit-tree", &tree, "-m", &message])?
CommitTree(next) ==
  /\ \E st \in RunStatuses :
       LET a == <<"git", "commit-tree", "&tree", "-m", "&message">>
           new == Len(commits) + 1
           r == run_output(a, tree, st, CommitName(new) \o <<"\n">>)
       IN  /\ Success(st) => ResolveTree(tree) # {}
           /\ Issue(a, tree, st)
           /\ Try(r, next)
           /\ commit' = IF r.ok THEN r.val ELSE commit
           /\ commits' =
                IF Success(st)
                  THEN Append(commits,
                              [parents |-> {},
                               tree |-> CHOOSE t \in ResolveTree(tree) : TRUE,
                               msg |-> message])
                  ELSE commits
  /\ UNCHANGED <<githubBefore, confirms, argv, message, out, output,
                 github_exists, tree, base, counts, entryMain, localMain,
                 index, worktree, originMain, originRemote, githubMain,
                 githubRemote>>

\* ResetHardCommit as if the code ran git reset --hard without the commit.
ResetHardCommit_Head(next) ==
  /\ \E st \in RunStatuses :
       LET a == <<"git", "reset", "--hard", "&commit">>
           target == ResolveCommit(commits, commit)
       IN  /\ Success(st) => target # {}
           /\ Issue(a, commit, st)
           /\ Try(run(a, commit, st), next)
           /\ IF Success(st)
                THEN /\ localMain' = localMain
                     /\ index' = commits[localMain].tree
                     /\ worktree' = commits[localMain].tree
                ELSE UNCHANGED <<localMain, index, worktree>>
  /\ UNCHANGED <<githubBefore, confirms, argv, message, out, output, localVars,
                 commits, originMain, originRemote, githubMain, githubRemote>>

\* run("git", &["reset", "--hard", &commit])?
ResetHardCommit(next) ==
  /\ \E st \in RunStatuses :
       LET a == <<"git", "reset", "--hard", "&commit">>
           target == ResolveCommit(commits, commit)
       IN  /\ Success(st) => target # {}
           /\ Issue(a, commit, st)
           /\ Try(run(a, commit, st), next)
           /\ IF Success(st)
                THEN LET c == CHOOSE c \in target : TRUE
                     IN  /\ localMain' = c
                         /\ index' = commits[c].tree
                         /\ worktree' = commits[c].tree
                ELSE UNCHANGED <<localMain, index, worktree>>
  /\ UNCHANGED <<githubBefore, confirms, argv, message, out, output, localVars,
                 commits, originMain, originRemote, githubMain, githubRemote>>

\* run("git", &["push", "github", "main", "--force"])? and the status line
PushForce(line) ==
  /\ \E st \in RunStatuses :
       LET a == <<"git", "push", "github", "main", "--force">>
           r == run(a, <<>>, st)
       IN  /\ Issue(a, <<>>, st)
           /\ IF r.ok
                THEN /\ githubRemote' = {localMain}
                     /\ githubMain' = {localMain}
                     /\ Println(<<line>>)
                     /\ Finish
                ELSE /\ Fail(r.err)
                     /\ UNCHANGED <<githubRemote, githubMain, out>>
  /\ UNCHANGED <<githubBefore, confirms, argv, message, output, localVars,
                 commits, localMain, index, worktree, originMain,
                 originRemote>>

\* lines 140-146: the bootstrap path
BootAdd == pc = "boot_add" /\ AddDot("boot_write_tree")

BootWriteTree == pc = "boot_write_tree" /\ WriteTree("boot_commit_tree")

BootCommitTree == pc = "boot_commit_tree" /\ CommitTree("boot_reset")

BootReset == pc = "boot_reset" /\ ResetHardCommit("boot_push")

BootPush == pc = "boot_push" /\ PushForce("Published to GitHub (initial, squashed): \"{}\".")

\* Fetch without the `?` of line 149.
Fetch_IgnoreResult ==
  /\ pc = "fetch"
  /\ \E st \in RunStatuses :
       LET a == <<"git", "fetch", "github">>
       IN  /\ Issue(a, <<>>, st)
           /\ Goto("merge_base")
           /\ githubMain' = IF Success(st) THEN githubRemote ELSE githubMain
  /\ UNCHANGED <<githubBefore, confirms, argv, message, out, output, localVars,
                 commits, localMain, index, worktree, originMain, originRemote,
                 githubRemote>>

\* line 149: git fetch github
Fetch ==
  /\ pc = "fetch"
  /\ \E st \in RunStatuses :
       LET a == <<"git", "fetch", "github">>
       IN  /\ Issue(a, <<>>, st)
           /\ Try(run(a, <<>>, st), "merge_base")
           /\ githubMain' = IF Success(st) THEN githubRemote ELSE githubMain
  /\ UNCHANGED <<githubBefore, confirms, argv, message, out, output, localVars,
                 commits, localMain, index, worktree, originMain, originRemote,
                 githubRemote>>

\* lines 150-153 and 171-172: merge_base("main", "github/main")? and the match
MergeBase ==
  /\ pc = "merge_base"
  /\ \E o \in MergeBaseOutputs :
       LET r == merge_base("main", "github/main", o)
       IN  /\ output' = o
           /\ Issue(<<"git", "merge-base", "main", "github/main">>, <<>>, o.status)
           /\ IF ~r.ok THEN
                /\ Fail(r.err)
                /\ UNCHANGED <<base, out>>
              ELSE IF r.val = {} THEN
                /\ Println(<<"GitHub history unrelated to GitLab.">>)
                /\ Goto("confirm_force")
                /\ UNCHANGED base
              ELSE
                /\ base' = CHOOSE b \in r.val : TRUE
                /\ Println(<<"Base commit: {}", "Squashing and force-pushing...">>)
                /\ Goto("reset_base")
  /\ UNCHANGED <<githubBefore, confirms, argv, message, github_exists, tree,
                 commit, counts, entryMain, gitVars>>

\* ConfirmForce without the `return Ok(())` of line 160.
ConfirmForce_NoReturn ==
  /\ pc = "confirm_force"
  /\ \E answer \in PromptAnswers :
       /\ Confirm("Force-publish current main to github/main? This overwrites GitHub.", answer)
       /\ CASE answer = "yes" -> Goto("force_add") /\ UNCHANGED out
            [] answer = "no" -> Println(<<"Aborted.">>) /\ Goto("force_add")
            [] OTHER -> Fail(IoError) /\ UNCHANGED out
  /\ output' = NoOutput
  /\ UNCHANGED <<githubBefore, argv, message, cmds, localVars, gitVars>>

\* lines 154-161: "Force-publish current main to github/main?"
ConfirmForce ==
  /\ pc = "confirm_force"
  /\ \E answer \in PromptAnswers :
       /\ Confirm("Force-publish current main to github/main? This overwrites GitHub.", answer)
       /\ CASE answer = "yes" -> Goto("force_add") /\ UNCHANGED out
            [] answer = "no" -> Println(<<"Aborted.">>) /\ Finish
            [] OTHER -> Fail(IoError) /\ UNCHANGED out
  /\ output' = NoOutput
  /\ UNCHANGED <<githubBefore, argv, message, cmds, localVars, gitVars>>

\* lines 162-168: the force-overwrite path
ForceAdd == pc = "force_add" /\ AddDot("force_write_tree")

ForceWriteTree == pc = "force_write_tree" /\ WriteTree("force_commit_tree")

ForceCommitTree == pc = "force_commit_tree" /\ CommitTree("force_reset")

ForceReset == pc = "force_reset" /\ ResetHardCommit("force_push")

ForcePush == pc = "force_push" /\ PushForce("Published to GitHub (force overwrite): \"{}\".")

\* ResetBase as if the code ran git reset --hard <base>.
ResetBase_Hard ==
  /\ pc = "reset_base"
  /\ \E st \in RunStatuses :
       LET a == <<"git", "reset", "&base">>
           target == ResolveCommit(commits, base)
       IN  /\ Success(st) => target # {}
           /\ Issue(a, base, st)
           /\ Try(run(a, base, st), "incr_add")
           /\ IF Success(st)
                THEN LET c == CHOOSE c \in target : TRUE
                     IN  /\ localMain' = c
                         /\ index' = commits[c].tree
                         /\ worktree' = commits[c].tree
                ELSE UNCHANGED <<localMain, index, worktree>>
  /\ output' = NoOutput
  /\ UNCHANGED <<githubBefore, confirms, argv, message, out, localVars,
                 commits, originMain, originRemote, githubMain,
                 githubRemote>>

\* line 173: git reset <base>
ResetBase ==
  /\ pc = "reset_base"
  /\ \E st \in RunStatuses :
       LET a == <<"git", "reset", "&base">>
           target == ResolveCommit(commits, base)
       IN  /\ Success(st) => target # {}
           /\ Issue(a, base, st)
           /\ Try(run(a, base, st), "incr_add")
           /\ IF Success(st)
                THEN LET c == CHOOSE c \in target : TRUE
                     IN  localMain' = c /\ index' = commits[c].tree
                ELSE UNCHANGED <<localMain, index>>
  /\ output' = NoOutput
  /\ UNCHANGED <<githubBefore, confirms, argv, message, out, localVars,
                 commits, worktree, originMain, originRemote, githubMain,
                 githubRemote>>

\* line 174
IncrAdd == pc = "incr_add" /\ AddDot("incr_commit")

\* Commit going on to the push whatever the status of git commit was.
Commit_IgnoreStatus ==
  /\ pc = "incr_commit"
  /\ \E st \in RunStatuses :
       LET a == <<"git", "commit", "-m", "&message">>
           new == Len(commits) + 1
       IN  /\ Success(st) => index # commits[localMain].tree
           /\ Issue(a, <<>>, st)
           /\ IF ~st.spawned THEN
                /\ Fail(IoError)
                /\ UNCHANGED <<out, commits, localMain>>
              ELSE IF ~Success(st) THEN
                /\ Goto("incr_push")
                /\ UNCHANGED <<out, commits, localMain>>
              ELSE
                /\ commits' = Append(commits,
                                     [parents |-> {localMain}, tree |-> index,
                                      msg |-> message])
                /\ localMain' = new
                /\ Goto("incr_push")
                /\ UNCHANGED out
  /\ UNCHANGED <<githubBefore, confirms, argv, message, output, localVars,
                 index, worktree, originMain, originRemote, githubMain,
                 githubRemote>>

\* lines 175-184: git commit -m <message>; it creates a commit only when
\* the index differs from the tree of HEAD, and may fail for other reasons.
Commit ==
  /\ pc = "incr_commit"
  /\ \E st \in RunStatuses :
       LET a == <<"git", "commit", "-m", "&message">>
           new == Len(commits) + 1
       IN  /\ Success(st) => index # commits[localMain].tree
           /\ Issue(a, <<>>, st)
           /\ IF ~st.spawned THEN
                /\ Fail(IoError)
                /\ UNCHANGED <<out, commits, localMain>>
              ELSE IF ~Success(st) THEN
                /\ Println(<<"No changes since last GitHub release. Nothing to publish.">>)
                /\ Finish
                /\ UNCHANGED <<commits, localMain>>
              ELSE
                /\ commits' = Append(commits,
                                     [parents |-> {localMain}, tree |-> index,
                                      msg |-> message])
                /\ localMain' = new
                /\ Goto("incr_push")
                /\ UNCHANGED out
  /\ UNCHANGED <<githubBefore, confirms, argv, message, output, localVars,
                 index, worktree, originMain, originRemote, githubMain,
                 githubRemote>>

\* lines 185-187
IncrPush == pc = "incr_push" /\ PushForce("Published to GitHub: \"{}\".")

\* ---------------------------------------------------------- specification
Next ==
  \/ ReadArgs
  \/ InputMessage
  \/ ConfirmContinue
  \/ SwitchMain
  \/ Pull
  \/ RevList
  \/ ConfirmReset
  \/ ResetOrigin
  \/ CheckGithubBranch
  \/ BootAdd
  \/ BootWriteTree
  \/ BootCommitTree
  \/ BootReset
  \/ BootPush
  \/ Fetch
  \/ MergeBase
  \/ ConfirmForce
  \/ ForceAdd
  \/ ForceWriteTree
  \/ ForceCommitTree
  \/ ForceReset
  \/ ForcePush
  \/ ResetBase
  \/ IncrAdd
  \/ Commit
  \/ IncrPush

Spec == Init /\ [][Next]_vars

\* ------------------------------------------ parse_ahead_behind on its own
\* Pieces of the text handed to parse_ahead_behind: digits, signs, a letter,
\* separators, and a number one larger than u64::MAX.
TxtOverU64 ==
  <<"1", "8", "4", "4", "6", "7", "4", "4", "0", "7", "3", "7", "0", "9", "5", "5", "1", "6", "1", "6">>

ParseFragments ==
  {<<"3">>, <<"5">>, <<"0">>, <<"+">>, <<"-">>, <<"a">>, <<" ">>, <<"\t">>,
   TxtOverU64}

ParseInputs ==
  {Concat(fs) : fs \in SeqUpTo(ParseFragments, MaxParseFrag)}
    \cup {<<"a", "b", "c", " ", "d", "e", "f">>}

\* The parser is about to be applied to a text the rev-list child wrote.
InitParse ==
  /\ pc = "parse"
  /\ \E s \in ParseInputs : output = Output(Exited(0), s, <<>>)
  /\ argv = <<>>
  /\ message \in Messages
  /\ out = <<>>
  /\ cmds = <<>>
  /\ confirms = <<>>
  /\ result = "running"
  /\ err = NoError
  /\ github_exists = FALSE
  /\ tree = <<>>
  /\ commit = <<>>
  /\ base = <<>>
  /\ counts = <<0, 0>>
  /\ commits = InitCommits
  /\ localMain = Len(InitCommits) - 1
  /\ entryMain = localMain
  /\ index = commits[localMain].tree
  /\ worktree = commits[localMain].tree
  /\ originMain = localMain - 1
  /\ originRemote = originMain
  /\ githubMain = {}
  /\ githubRemote = {}
  /\ githubBefore = githubRemote

\* sync_gitlab_main, line 79: let (ahead, behind) = parse_ahead_behind(..)
ParseCounts ==
  /\ pc = "parse"
  /\ counts' = parse_ahead_behind(output.stdout)
  /\ pc' = "parsed"
  /\ UNCHANGED <<argv, message, out, cmds, confirms, result, err,
                 github_exists, tree, commit, base, entryMain, output,
                 gitVars, githubBefore>>

NextParse == ParseCounts

SpecParse == InitParse /\ [][NextParse]_vars

\* ----------------------------------------------------------------- claims
\* What the run has done so far, read from its logs.
Subcommand(i) == cmds[i].argv[2]

Issued(name) == \E i \in DOMAIN cmds : Subcommand(i) = name

Printed(line) == \E i \in DOMAIN out : out[i] = line

Answered(text, answer) ==
  \E i \in DOMAIN confirms : confirms[i] = [text |-> text, answer |-> answer]

LastAnswer(text, answer) ==
  /\ confirms # <<>>
  /\ confirms[Len(confirms)] = [text |-> text, answer |-> answer]

LastPrinted(line) == out # <<>> /\ out[Len(out)] = line

ContinuePrompt == "Continue?"

ResetPrompt == "Reset local main to origin/main? Local commits will be lost."

ForcePrompt == "Force-publish current main to github/main? This overwrites GitHub."

PullFailed ==
  \E i \in DOMAIN cmds :
    Subcommand(i) = "pull" /\ cmds[i].st.spawned /\ ~Success(cmds[i].st)

Published ==
  \/ Printed("Published to GitHub (initial, squashed): \"{}\".")
  \/ Printed("Published to GitHub (force overwrite): \"{}\".")
  \/ Printed("Published to GitHub: \"{}\".")

NothingToPublish ==
  Printed("No changes since last GitHub release. Nothing to publish.")

Declined == \E i \in DOMAIN confirms : confirms[i].answer = "no"

\* C1: once the fast-forward-only pull has failed and the user has declined
\* the reset prompt, the run is over: it has ended successfully with
\* "Aborted." as its last line, and no ls-remote, add, write-tree,
\* commit-tree, reset, fetch, merge-base, commit or push was issued.
C1_DeclinedResetEndsRun ==
  (PullFailed /\ Answered(ResetPrompt, "no")) =>
    /\ pc = "exit"
    /\ result = "Ok"
    /\ LastPrinted("Aborted.")
    /\ \A i \in DOMAIN cmds :
         Subcommand(i) \notin {"ls-remote", "add", "write-tree", "commit-tree",
                               "reset", "fetch", "merge-base", "commit", "push"}

\* The failures the specification lets a run survive: the refused pull,
\* exit code 2 of ls-remote, a merge-base failure taken for unrelated
\* histories, and a commit with nothing staged.
SurvivableFailure(i) ==
  \/ Subcommand(i) = "pull" /\ cmds[i].st.spawned
  \/ Subcommand(i) = "ls-remote" /\ cmds[i].st = Exited(2)
  \/ /\ Subcommand(i) = "merge-base"
     /\ cmds[i].st.spawned
     /\ Printed("GitHub history unrelated to GitLab.")
  \/ /\ Subcommand(i) = "commit"
     /\ cmds[i].st.spawned
     /\ index = commits[localMain].tree

FatalFailure(i) == ~Success(cmds[i].st) /\ ~SurvivableFailure(i)

\* C5: every other git child that exits non-zero or cannot be spawned is the
\* last command of the run, and the run ends with an error; in particular a
\* git commit that fails although something is staged is fatal.
C5_EveryFailureIsFatal ==
  \A i \in DOMAIN cmds :
    FatalFailure(i) =>
      /\ i = Len(cmds)
      /\ pc = "exit"
      /\ result = "Err"
      /\ ExitCode # 0

\* C8: after "Continue?" was declined the run has ended with exit code 0 and
\* "Aborted." as its last line, no git command was issued, and the
\* repository and the mirror are as they were.
C8_DeclinedContinueChangesNothing ==
  Answered(ContinuePrompt, "no") =>
    /\ pc = "exit"
    /\ result = "Ok"
    /\ ExitCode = 0
    /\ out = <<"Commit: \"{}\"", "Aborted.">>
    /\ cmds = <<>>
    /\ commits = InitCommits
    /\ localMain = entryMain
    /\ index = commits[localMain].tree
    /\ githubMain = {}
    /\ githubRemote = githubBefore

C8_Witness ==
  /\ pc = "exit"
  /\ LastAnswer(ContinuePrompt, "no")
  /\ LastPrinted("Aborted.")
  /\ message \in Messages

\* C9: while the resolver runs after a failed pull, and when it returns
\* because the reset prompt was declined, no reset has been issued and local
\* main is the commit it was when the resolver was entered.
C9_DeclinedResetKeepsMain ==
  (\/ pc \in {"revlist", "confirm_reset"}
   \/ pc = "exists" /\ LastAnswer(ResetPrompt, "no")) =>
    /\ PullFailed
    /\ ~Issued("reset")
    /\ localMain = entryMain
    /\ index = commits[entryMain].tree

C9_Witness ==
  /\ pc = "exists"
  /\ LastAnswer(ResetPrompt, "no")
  /\ LastPrinted("Aborted.")
  /\ localMain # originMain
  /\ counts[1] > 0
  /\ counts[2] > 0

\* A step failed that the specification makes fatal.
FatalStepFailed ==
  \/ \E i \in DOMAIN cmds : FatalFailure(i)
  \/ \E i \in DOMAIN confirms : confirms[i].answer = "error"
  \/ (pc = "exit" /\ result = "Err" /\ confirms = <<>>)

\* C10: a finished run has exit code 0 exactly when it published, had
\* nothing to publish or was declined, and a non-zero exit code exactly when
\* a fatal step failed; published, nothing to publish and declined exclude
\* one another.
C10_ExitMapping ==
  pc = "exit" =>
    /\ ExitCode = 0 <=> (Published \/ NothingToPublish \/ Declined)
    /\ ExitCode # 0 <=> FatalStepFailed
    /\ ~(Published /\ NothingToPublish)
    /\ ~(Published /\ Declined)
    /\ ~(NothingToPublish /\ Declined)

\* The commands of the single-commit bootstrap, in the order of the code.
BootstrapArgvs ==
  <<<<"git", "add", ".">>,
    <<"git", "write-tree">>,
    <<"git", "commit-tree", "&tree", "-m", "&message">>,
    <<"git", "reset", "--hard", "&commit">>,
    <<"git", "push", "github", "main", "--force">>>>

\* The commands issued after the (only) git merge-base of the run.
AfterMergeBase ==
  LET k == CHOOSE i \in DOMAIN cmds : Subcommand(i) = "merge-base"
  IN  SubSeq(cmds, k + 1, Len(cmds))

\* C2: after the lookup found no common base, declining the force prompt
\* ends the run with "Aborted." and exit code 0 with merge-base as the last
\* command; commands follow the lookup only after the prompt was accepted,
\* and then they are the bootstrap commands in order, each but the last one
\* issued having succeeded; the mirror's main is replaced by a commit
\* unrelated to it only after the prompt was accepted.
C2_ForceOverwriteNeedsConsent ==
  /\ Answered(ForcePrompt, "no") =>
       /\ pc = "exit"
       /\ result = "Ok"
       /\ ExitCode = 0
       /\ LastPrinted("Aborted.")
       /\ Subcommand(Len(cmds)) = "merge-base"
       /\ githubRemote = githubBefore
  /\ (Printed("GitHub history unrelated to GitLab.") /\ AfterMergeBase # <<>>) =>
       /\ Answered(ForcePrompt, "yes")
       /\ Len(AfterMergeBase) <= Len(BootstrapArgvs)
       /\ \A i \in DOMAIN AfterMergeBase :
            /\ AfterMergeBase[i].argv = BootstrapArgvs[i]
            /\ i < Len(AfterMergeBase) => Success(AfterMergeBase[i].st)
  /\ Answered(ForcePrompt, "yes") =>
       \/ pc \in {"force_add", "force_write_tree", "force_commit_tree",
                  "force_reset", "force_push"}
       \/ pc = "exit" /\ result = "Err"
       \/ /\ pc = "exit"
          /\ LastPrinted("Published to GitHub (force overwrite): \"{}\".")
          /\ Len(AfterMergeBase) = Len(BootstrapArgvs)
          /\ githubRemote = {localMain}
          /\ commits[localMain].parents = {}
  /\ (/\ githubBefore # {}
      /\ githubRemote # githubBefore
      /\ Reach(commits, githubRemote) \cap Reach(commits, githubBefore) = {}) =>
       Answered(ForcePrompt, "yes")

C2_Witness ==
  /\ pc = "exit"
  /\ LastPrinted("Published to GitHub (force overwrite): \"{}\".")
  /\ githubBefore = {5}
  /\ githubRemote = {6}

\* C3: on the bootstrap path the staged tree is the working-tree content,
\* the tree written is that tree, the commit created has no parent, that
\* tree and the user's message, local main is hard-reset to it before the
\* push, and a run that found no main on the mirror and ended successfully
\* has issued exactly one push, as its last command, which left the
\* mirror's main at that one parentless commit.
C3_BootstrapPublishesRootCommit ==
  /\ pc = "boot_write_tree" => index = worktree
  /\ pc = "boot_commit_tree" => ResolveTree(tree) = {worktree}
  /\ pc = "boot_reset" =>
       \E c \in ResolveCommit(commits, commit) :
         /\ commits[c] = [parents |-> {}, tree |-> worktree, msg |-> message]
         /\ ResolveTree(tree) = {worktree}
         /\ c \notin Reach(commits, {localMain})
  /\ pc = "boot_push" =>
       /\ ResolveCommit(commits, commit) = {localMain}
       /\ commits[localMain].parents = {}
       /\ ResolveTree(tree) = {commits[localMain].tree}
       /\ cmds[Len(cmds)].argv = <<"git", "reset", "--hard", "&commit">>
       /\ cmds[Len(cmds)].val = commit
       /\ Success(cmds[Len(cmds)].st)
       /\ githubRemote = {}
  /\ (pc = "exit" /\ result = "Ok" /\ Answered(ContinuePrompt, "yes") /\ ~github_exists) =>
       /\ LastPrinted("Published to GitHub (initial, squashed): \"{}\".")
       /\ Cardinality({i \in DOMAIN cmds : Subcommand(i) = "push"}) = 1
       /\ cmds[Len(cmds)].argv = <<"git", "push", "github", "main", "--force">>
       /\ cmds[Len(cmds) - 1].argv = <<"git", "reset", "--hard", "&commit">>
       /\ githubBefore = {}
       /\ githubRemote = {localMain}
       /\ ResolveCommit(commits, commit) = {localMain}
       /\ Reach(commits, githubRemote) = {localMain}
       /\ commits[localMain].parents = {}
       /\ ResolveTree(tree) = {commits[localMain].tree}

C3_Witness ==
  /\ pc = "exit"
  /\ LastPrinted("Published to GitHub (initial, squashed): \"{}\".")
  /\ localMain = Len(InitCommits) + 1
  /\ commits[localMain].tree # commits[entryMain].tree

\* C4: on the incremental path a push is reached only with a new commit on
\* top of the base whose tree differs from the base's; when git commit
\* created no commit with nothing staged relative to HEAD, no push has
\* been issued and the mirror is unchanged, and when git could be started
\* the run has printed the "Nothing to publish" line last and exits 0.
C4_NoDifferenceNoPush ==
  /\ pc = "incr_push" =>
       /\ commits[localMain].parents = ResolveCommit(commits, base)
       /\ commits[localMain].tree # TreeOf(commits, commits[localMain].parents)
  /\ (/\ cmds # <<>>
      /\ Subcommand(Len(cmds)) = "commit"
      /\ ~Success(cmds[Len(cmds)].st)
      /\ index = commits[localMain].tree) =>
       /\ pc = "exit"
       /\ ~Issued("push")
       /\ githubRemote = githubBefore
       /\ ResolveCommit(commits, base) = {localMain}
       /\ cmds[Len(cmds)].st.spawned =>
            /\ result = "Ok"
            /\ ExitCode = 0
            /\ LastPrinted("No changes since last GitHub release. Nothing to publish.")

C4_Witness ==
  /\ pc = "exit"
  /\ LastPrinted("No changes since last GitHub release. Nothing to publish.")
  /\ index = commits[localMain].tree
  /\ ResolveCommit(commits, base) = {localMain}
  /\ cmds[Len(cmds)].st = Exited(1)

\* C6: the status of git ls-remote decides the existence check for every
\* status: exit 0 is true and the run goes on to the fetch, exit 2 is false
\* and the run goes on to the bootstrap, and any other exit code, a death by
\* signal or a failure to spawn makes ls-remote the last command of a run
\* that ends with an error.
C6_ExistenceCheckMapping ==
  \A i \in DOMAIN cmds :
    cmds[i].argv = LsRemoteArgv =>
      LET st == cmds[i].st
      IN  IF st = Exited(0) THEN
            /\ github_exists
            /\ i = Len(cmds) => (pc = "fetch" /\ result = "running")
          ELSE IF st = Exited(2) THEN
            /\ ~github_exists
            /\ i = Len(cmds) => (pc = "boot_add" /\ result = "running")
          ELSE
            /\ i = Len(cmds)
            /\ pc = "exit"
            /\ result = "Err"
            /\ ExitCode # 0
            /\ err.what = (IF st.spawned THEN "Command failed" ELSE "io error")
            /\ st.spawned => err.argv = LsRemoteArgv
            /\ githubRemote = githubBefore

C6_Witness ==
  /\ pc = "exit"
  /\ cmds # <<>>
  /\ cmds[Len(cmds)].argv = LsRemoteArgv
  /\ cmds[Len(cmds)].st = Exited(17)
  /\ result = "Err"

FieldStarts(s) ==
  {i \in 1..Len(s) : s[i] \notin Whitespace /\ (i = 1 \/ s[i - 1] \in Whitespace)}

NumFields(s) == Cardinality(FieldStarts(s))

\* The k-th field, for k in 1..NumFields(s).
FieldAt(s, k) ==
  LET i == CHOOSE a \in FieldStarts(s) :
             Cardinality({b \in FieldStarts(s) : b < a}) = k - 1
      j == CHOOSE e \in i..Len(s) :
             /\ \A m \in i..e : s[m] \notin Whitespace
             /\ e = Len(s) \/ s[e + 1] \in Whitespace
  IN  SubSeq(s, i, j)

\* The digits of a field written as a non-negative integer ('+' allowed).
Unsigned(f) == IF f # <<>> /\ f[1] = "+" THEN SubSeq(f, 2, Len(f)) ELSE f

IsNonNegIntText(f) ==
  /\ Unsigned(f) # <<>>
  /\ \A k \in 1..Len(Unsigned(f)) :
       Unsigned(f)[k] \in {"0", "1", "2", "3", "4", "5", "6", "7", "8", "9"}

\* The value of such a field in decimal, without leading zeros.
NatText(f) ==
  LET d == Unsigned(f)
      nz == {k \in 1..Len(d) : d[k] # "0"}
  IN  IF nz = {} THEN <<"0">>
      ELSE SubSeq(d, CHOOSE k \in nz : \A m \in nz : k <= m, Len(d))

\* A decimal text without leading zeros is at most u64::MAX.
AtMostU64Max(t) ==
  \/ Len(t) < Len(U64MaxText)
  \/ t = U64MaxText
  \/ /\ Len(t) = Len(U64MaxText)
     /\ \E k \in 1..Len(t) :
          /\ DigitVal(t[k]) < DigitVal(U64MaxText[k])
          /\ \A m \in 1..(k - 1) : t[m] = U64MaxText[m]

ParsedText == output.stdout

\* C11 as stated: for a text with at least two fields the parser returns the
\* values of the first two fields, each replaced by 0 when the field is not
\* a non-negative integer, and the empty text gives (0, 0).
C11_ParserReturnsFieldValues ==
  pc = "parsed" =>
    /\ NumFields(ParsedText) >= 2 =>
         \A k \in {1, 2} :
           Dec(counts[k]) =
             (IF IsNonNegIntText(FieldAt(ParsedText, k))
                THEN NatText(FieldAt(ParsedText, k)) ELSE <<"0">>)
    /\ ParsedText = <<>> => counts = <<0, 0>>

\* C11, amended: for a text with at least two fields the parser returns the
\* values of the first two fields, each replaced by 0 when the field is not
\* a non-negative integer of at most u64::MAX, and the empty text gives
\* (0, 0).
C11_ParserReturnsU64FieldValues ==
  pc = "parsed" =>
    /\ NumFields(ParsedText) >= 2 =>
         \A k \in {1, 2} :
           Dec(counts[k]) =
             (IF /\ IsNonNegIntText(FieldAt(ParsedText, k))
                 /\ AtMostU64Max(NatText(FieldAt(ParsedText, k)))
                THEN NatText(FieldAt(ParsedText, k)) ELSE <<"0">>)
    /\ ParsedText = <<>> => counts = <<0, 0>>

C11_Witness ==
  /\ pc = "parsed"
  /\ ParsedText = TxtOverU64 \o <<"\t", "5">>
  /\ counts = <<0, 5>>

\* C12: for a text with exactly one field that is a valid integer n the
\* parser returns (n, 0).
C12_SingleFieldIsKept ==
  (/\ pc = "parsed"
   /\ NumFields(ParsedText) = 1
   /\ IsNonNegIntText(FieldAt(ParsedText, 1))
   /\ AtMostU64Max(NatText(FieldAt(ParsedText, 1)))) =>
    /\ Dec(counts[1]) = NatText(FieldAt(ParsedText, 1))
    /\ counts[2] = 0

\* The steps whose failure the code propagates with `?`.
GuardedSteps ==
  {"switch", "rev-list", "reset", "add", "write-tree", "commit-tree", "fetch", "push"}

GuardedStepFailed(i) ==
  Subcommand(i) \in GuardedSteps /\ ~Success(cmds[i].st)

\* C13: a guarded step (switch main, rev-list, reset, add, write-tree,
\* commit-tree, fetch github, push) that failed is the last git command of
\* the run, so no push follows it, and the run has ended with an error.
C13_FailedStepEndsRun ==
  \A i \in DOMAIN cmds :
    GuardedStepFailed(i) =>
      /\ i = Len(cmds)
      /\ \A j \in DOMAIN cmds : j > i => Subcommand(j) # "push"
      /\ pc = "exit"
      /\ result = "Err"

C13_Witness ==
  /\ pc = "exit"
  /\ result = "Err"
  /\ Len(cmds) > 4
  /\ Subcommand(Len(cmds)) = "commit-tree"
  /\ cmds[Len(cmds)].st = Exited(1)
  /\ err = CommandFailed(cmds[Len(cmds)].argv, cmds[Len(cmds)].val)

\* Position of the first command with the given subcommand, 0 when none.
FirstIssued(name) ==
  IF Issued(name)
    THEN CHOOSE i \in DOMAIN cmds :
           /\ Subcommand(i) = name
           /\ \A j \in 1..(i - 1) : Subcommand(j) # name
    ELSE 0

ResetOriginArgv == <<"git", "reset", "--hard", "origin/main">>

\* C14: git reset --hard origin/main is issued only after the
\* fast-forward-only pull failed and the reset prompt was accepted; after a
\* successful pull there is no rev-list, no reset prompt and no reset to
\* origin/main, and the resolver has returned; a failed accepted reset is
\* the last command and ends the run with an error.
C14_ResolverResetsOnlyOnConsent ==
  /\ \A i \in DOMAIN cmds :
       cmds[i].argv = ResetOriginArgv =>
         /\ i > 1
         /\ Subcommand(i - 1) = "rev-list"
         /\ PullFailed
         /\ FirstIssued("pull") < i
         /\ Answered(ResetPrompt, "yes")
         /\ ~Success(cmds[i].st) =>
              i = Len(cmds) /\ pc = "exit" /\ result = "Err"
  /\ \A i \in DOMAIN cmds :
       (Subcommand(i) = "pull" /\ Success(cmds[i].st)) =>
         /\ ~Issued("rev-list")
         /\ \A k \in DOMAIN confirms : confirms[k].text # ResetPrompt
         /\ \A j \in DOMAIN cmds : cmds[j].argv # ResetOriginArgv
         /\ pc \notin {"pull", "revlist", "confirm_reset", "reset_origin"}
         /\ i = Len(cmds) => pc = "exists"
  /\ pc = "reset_origin" => PullFailed /\ LastAnswer(ResetPrompt, "yes")

C14_Witness ==
  /\ pc = "exit"
  /\ result = "Err"
  /\ PullFailed
  /\ Answered(ResetPrompt, "yes")
  /\ cmds[Len(cmds)].argv = ResetOriginArgv
  /\ cmds[Len(cmds)].st = Exited(1)

IncrementalLine == "Published to GitHub: \"{}\"."

\* The commit the variable base names.
BaseCommit == ResolveCommit(commits, base)

\* C15: on the incremental path git reset <base> moves local main to the
\* merge base of main and github/main and leaves the working tree as it
\* was; the commit then created is one new commit whose only parent is that
\* base and whose tree is the staged working-tree content, different from
\* the tree of the base, so that its history is the base's history and
\* itself; and that commit is what the push puts on github main.
C15_IncrementalSquash ==
  [][/\ (pc = "reset_base" /\ pc' = "incr_add") =>
          /\ \E g \in githubMain : BaseCommit \subseteq MergeBases(commits, localMain, g)
          /\ BaseCommit = {localMain'}
          /\ worktree' = worktree
          /\ commits' = commits
     /\ (pc = "incr_commit" /\ pc' = "incr_push") =>
          /\ BaseCommit = {localMain}
          /\ index = worktree
          /\ Len(commits') = Len(commits) + 1
          /\ SubSeq(commits', 1, Len(commits)) = commits
          /\ localMain' = Len(commits')
          /\ commits'[localMain'].parents = BaseCommit
          /\ commits'[localMain'].tree = worktree
          /\ commits'[localMain'].tree # commits[localMain].tree
          /\ Reach(commits', {localMain'}) = {localMain'} \cup Reach(commits, BaseCommit)
          /\ worktree' = worktree
     /\ (pc = "incr_push" /\ pc' = "exit" /\ result' = "Ok") =>
          /\ githubRemote' = {localMain}
          /\ localMain' = localMain
          /\ localMain = Len(commits)
          /\ commits' = commits
          /\ commits[localMain].parents = BaseCommit
          /\ commits[localMain].tree = worktree
          /\ cmds'[Len(cmds')].argv = <<"git", "push", "github", "main", "--force">>
  ]_vars

C15_Witness ==
  /\ pc = "exit"
  /\ LastPrinted(IncrementalLine)
  /\ entryMain = 3
  /\ githubBefore = {1}
  /\ commits[localMain].parents = {1}
  /\ commits[localMain].tree = worktree
  /\ githubRemote = {localMain}

\* C16: git merge-base is issued only right after a successful git fetch
\* github, which itself follows an existence check answering that the branch
\* exists; a failed fetch is the last command of the run, which ends with an
\* error and without merge-base lookup, force prompt, commit or push; and
\* when the existence check said the branch is absent no fetch is issued.
C16_MergeBaseAfterFetch ==
  /\ \A i \in DOMAIN cmds :
       Subcommand(i) = "merge-base" =>
         /\ i > 1
         /\ Subcommand(i - 1) = "fetch"
         /\ Success(cmds[i - 1].st)
  /\ \A i \in DOMAIN cmds :
       Subcommand(i) = "fetch" =>
         /\ i > 1
         /\ cmds[i - 1].argv = LsRemoteArgv
         /\ cmds[i - 1].st = Exited(0)
         /\ ~Success(cmds[i].st) =>
              /\ i = Len(cmds)
              /\ pc = "exit"
              /\ result = "Err"
              /\ ~Issued("merge-base")
              /\ ~Issued("commit")
              /\ ~Issued("commit-tree")
              /\ ~Issued("push")
              /\ \A k \in DOMAIN confirms : confirms[k].text # ForcePrompt
              /\ githubRemote = githubBefore
  /\ \A i \in DOMAIN cmds :
       (cmds[i].argv = LsRemoteArgv /\ cmds[i].st = Exited(2)) =>
         ~Issued("fetch") /\ ~Issued("merge-base")

C16_Witness ==
  /\ pc = "reset_base"
  /\ Len(cmds) > 2
  /\ Subcommand(Len(cmds)) = "merge-base"
  /\ Subcommand(Len(cmds) - 1) = "fetch"
  /\ cmds[Len(cmds) - 1].st = Exited(0)
  /\ cmds[Len(cmds) - 2].argv = LsRemoteArgv

PushArgv == <<"git", "push", "github", "main", "--force">>

Pushes == {i \in DOMAIN cmds : Subcommand(i) = "push"}

\* C17: a run issues at most one push; a push is git push github main
\* --force, never a push to origin, and the last git command of the run;
\* before it the "Continue?" prompt was accepted, git switch main succeeded
\* and, after that, the existence check completed with exit code 0 or 2.
C17_SinglePushLast ==
  /\ Cardinality(Pushes) <= 1
  /\ \A i \in Pushes :
       /\ cmds[i].argv = PushArgv
       /\ cmds[i].argv[3] # "origin"
       /\ i = Len(cmds)
       /\ pc = "exit"
       /\ Answered(ContinuePrompt, "yes")
       /\ \E j \in 1..(i - 1) :
            /\ cmds[j].argv = <<"git", "switch", "main">>
            /\ Success(cmds[j].st)
            /\ \E k \in (j + 1)..(i - 1) :
                 /\ cmds[k].argv = LsRemoteArgv
                 /\ cmds[k].st \in {Exited(0), Exited(2)}

C17_Witness ==
  /\ pc = "exit"
  /\ Cardinality(Pushes) = 1
  /\ cmds[Len(cmds)].argv = PushArgv
  /\ cmds[Len(cmds)].st = Signalled
  /\ cmds[1].argv = <<"git", "switch", "main">>
  /\ Answered(ContinuePrompt, "yes")

\* C18: when the run has ended with one of the three "Published" lines, the
\* main ref of the mirror and local main are the same commit, and the message
\* of that commit is the message the user gave.
C18_PublishedCommitIsMain ==
  (pc = "exit" /\ Published) =>
    /\ result = "Ok"
    /\ githubRemote = {localMain}
    /\ commits[localMain].msg = message

C18_Witness ==
  /\ pc = "exit"
  /\ LastPrinted("Published to GitHub (force overwrite): \"{}\".")
  /\ githubBefore = {5}
  /\ githubRemote = {localMain}
  /\ message = "release 2"
  /\ commits[localMain].msg = "release 2"

====
